---- MODULE Spec2Model ----
(***************************************************************************)
(* Model of fix_scripts/keyring/fix_keyring.py: the keyring record codec   *)
(* (Key.read / Key.write), the header reader and the whole-file rewrite    *)
(* performed by main().                                                    *)
(*                                                                         *)
(* A file is a sequence of bytes (naturals 0..255).  A stream position is  *)
(* the 0-based offset file.tell() reports.  Integers packed into the file  *)
(* are 8 bytes wide, least significant byte first; every length that       *)
(* occurs in the inputs enumerated here fits its lowest byte.              *)
(***************************************************************************)
EXTENDS Integers, Sequences, FiniteSets, TLC

\* ------------------------------------------------------------------ bounds
\* Longest list of keys an enumerated input keyring holds.
MaxKeys == 2
\* Largest number of bytes cut off the end of an enumerated input keyring.
MaxCut == 10

\* ---------------------------------------------------------- byte constants
\* struct.calcsize('Q')
CalcsizeQ == 8
\* struct.calcsize('QQQQQ')
CalcsizeQQQQQ == 40

\* 'percona_binlog'
PerconaBinlog == <<112, 101, 114, 99, 111, 110, 97, 95, 98, 105, 110, 108, 111, 103>>
\* 'percona_binlog:0'
PerconaBinlogV0 == <<112, 101, 114, 99, 111, 110, 97, 95, 98, 105, 110, 108, 111, 103, 58, 48>>
\* 'EOF'
EOFText == <<69, 79, 70>>
\* ':'
Colon == <<58>>

Min(a, b) == IF a < b THEN a ELSE b
Max(a, b) == IF a > b THEN a ELSE b

\* ------------------------------------------------------- stream primitives
\* infile.read(n) at position pos: the bytes that are there, at most n.
FileRead(stream, pos, n) == SubSeq(stream, pos + 1, Min(pos + n, Len(stream)))

\* struct.pack('Q', v): 8 bytes, least significant first.
RECURSIVE PackBytes(_, _)
PackBytes(v, n) == IF n = 0 THEN <<>> ELSE <<v % 256>> \o PackBytes(v \div 256, n - 1)

PackQ(v) == PackBytes(v, CalcsizeQ)

\* struct.pack('QQQQQ', a, b, c, d, e)
PackQQQQQ(a, b, c, d, e) == PackQ(a) \o PackQ(b) \o PackQ(c) \o PackQ(d) \o PackQ(e)

\* struct.unpack of one 'Q' out of data, the k-th (0-based) of the five.
RECURSIVE UnpackBytes(_, _, _)
UnpackBytes(data, first, n) ==
    IF n = 0 THEN 0 ELSE data[first] + 256 * UnpackBytes(data, first + 1, n - 1)

UnpackQ(data, k) == UnpackBytes(data, k * CalcsizeQ + 1, CalcsizeQ)

\* struct.pack('{0}x'.format(n)): n null bytes.
PackPad(n) == [i \in 1..n |-> 0]

\* --------------------------------------------------------------- class Key
Key(key_id, key_type, user_id, key) ==
    [key_id |-> key_id, key_type |-> key_type, user_id |-> user_id, key |-> key]

\* Key.pod_size
pod_sizeWithoutSelf(k) ==
    4 * CalcsizeQ + Len(k.key_id) + Len(k.key_type) + Len(k.user_id) + Len(k.key)
pod_size(k) ==
    4 * CalcsizeQ + Len(k.key_id) + Len(k.key_type) + Len(k.user_id) + Len(k.key) + CalcsizeQ

\* The padding Key.read_padding and Key.write_padding compute from tell().
Padding(tell) == (8 - (tell % 8)) % 8

\* Key.write_padding: the bytes written when the stream is at tell.
write_padding(tell) == PackPad(Padding(tell))

\* Key.write as the sequence of its six outfile.write calls, the stream
\* being at position tell when it starts.
KeyWriteCallsSwapped(k, tell) ==
    LET head == PackQQQQQ(pod_size(k), Len(k.key_id), Len(k.key_type), Len(k.user_id), Len(k.key))
        body == Len(k.key_id) + Len(k.key_type) + Len(k.user_id) + Len(k.key)
    IN  << head, k.key_type, k.key_id, k.user_id, k.key,
           write_padding(tell + CalcsizeQQQQQ + body) >>
KeyWriteCallsRelativePad(k, tell) ==
    LET head == PackQQQQQ(pod_size(k), Len(k.key_id), Len(k.key_type), Len(k.user_id), Len(k.key))
        body == Len(k.key_id) + Len(k.key_type) + Len(k.user_id) + Len(k.key)
    IN  << head, k.key_id, k.key_type, k.user_id, k.key,
           write_padding(CalcsizeQQQQQ + body) >>
KeyWriteCalls(k, tell) ==
    LET head == PackQQQQQ(pod_size(k), Len(k.key_id), Len(k.key_type), Len(k.user_id), Len(k.key))
        body == Len(k.key_id) + Len(k.key_type) + Len(k.user_id) + Len(k.key)
    IN  << head, k.key_id, k.key_type, k.user_id, k.key,
           write_padding(tell + CalcsizeQQQQQ + body) >>

\* The bytes the first n write calls of Key.write put on the stream.
RECURSIVE Flatten(_, _)
Flatten(calls, n) == IF n = 0 THEN <<>> ELSE Flatten(calls, n - 1) \o calls[n]

\* Key.write: everything it writes.
KeyWrite(k, tell) == Flatten(KeyWriteCalls(k, tell), 6)

\* Key.read at position pos of stream.  eof is the False the code returns
\* when the unpack of the header fails; pos is the position it leaves.
KeyRead(stream, pos) ==
    LET head == FileRead(stream, pos, CalcsizeQQQQQ)
        p1   == pos + Len(head)
    IN  IF Len(head) # CalcsizeQQQQQ
        THEN [eof |-> TRUE, pos |-> p1]
        ELSE LET key_id   == FileRead(stream, p1, UnpackQ(head, 1))
                 p2       == p1 + Len(key_id)
                 key_type == FileRead(stream, p2, UnpackQ(head, 2))
                 p3       == p2 + Len(key_type)
                 user_id  == FileRead(stream, p3, UnpackQ(head, 3))
                 p4       == p3 + Len(user_id)
                 key      == FileRead(stream, p4, UnpackQ(head, 4))
                 p5       == p4 + Len(key)
                 padding  == FileRead(stream, p5, Padding(p5))
             IN  [eof |-> FALSE, key |-> Key(key_id, key_type, user_id, key),
                  pos |-> p5 + Len(padding)]

\* main's loading loop run on stream from position pos: the keys it appends
\* and the position at which the read that ended it started.
RECURSIVE LoadKeys(_, _)
LoadKeys(stream, pos) ==
    LET r == KeyRead(stream, pos)
    IN  IF r.eof
        THEN [keys |-> <<>>, pos |-> pos]
        ELSE LET rest == LoadKeys(stream, r.pos)
             IN  [keys |-> <<r.key>> \o rest.keys, pos |-> rest.pos]

\* The rename main applies to a key right before writing it.
FixKeyIgnoringFlag(k, fix) ==
    IF k.key_id = PerconaBinlog THEN [k EXCEPT !.key_id = PerconaBinlogV0] ELSE k
FixKey(k, fix) ==
    IF k.key_id = PerconaBinlog /\ fix = TRUE
    THEN [k EXCEPT !.key_id = PerconaBinlogV0]
    ELSE k

\* ------------------------------------------------------- enumerated inputs
\* 'Keyring file version:1.0'
HeaderStd == <<75, 101, 121, 114, 105, 110, 103, 32, 102, 105, 108, 101, 32,
               118, 101, 114, 115, 105, 111, 110, 58, 49, 46, 48>>
\* 'v:1.0', a header whose length is not a multiple of 8
HeaderShort == <<118, 58, 49, 46, 48>>
\* 'ver', a header without the colon
HeaderNoColon == <<118, 101, 114>>

Headers == {HeaderStd, HeaderShort, HeaderNoColon}

\* 'AES'
AES == <<65, 69, 83>>

KeySet ==
    { Key(PerconaBinlog, AES, <<>>, <<1, 2, 3, 4>>),
      Key(PerconaBinlogV0, AES, <<>>, <<>>),
      Key(<<107>>, AES, <<117>>, <<7, 7>>),
      Key(SubSeq(PerconaBinlog, 1, 13), AES, <<117>>, <<5>>) }

KeyLists == UNION { [1..n -> KeySet] : n \in 0..MaxKeys }

\* Difference between the total_size an input record stores and its size.
PodSkews == {0, 3}

\* One record of an input keyring, starting at position tell.
InputKey(k, tell, skew) ==
    LET body == Len(k.key_id) + Len(k.key_type) + Len(k.user_id) + Len(k.key)
    IN  PackQQQQQ(CalcsizeQQQQQ + body + skew,
                  Len(k.key_id), Len(k.key_type), Len(k.user_id), Len(k.key))
        \o k.key_id \o k.key_type \o k.user_id \o k.key
        \o PackPad(Padding(tell + CalcsizeQQQQQ + body))

RECURSIVE InputKeys(_, _, _, _)
InputKeys(ks, i, tell, skew) ==
    IF i > Len(ks) THEN <<>>
    ELSE LET bytes == InputKey(ks[i], tell, skew)
         IN  bytes \o InputKeys(ks, i + 1, tell + Len(bytes), skew)

\* An input keyring: header, records, 'EOF', with cut bytes missing at the end.
InputFile(hdr, ks, skew, cut) ==
    LET whole == hdr \o InputKeys(ks, 1, Len(hdr), skew) \o EOFText
    IN  SubSeq(whole, 1, Max(0, Len(whole) - cut))

\* The inputs enumerated keep the record headers where the writer of the
\* keyring put them: a header without a colon is followed by records none of
\* whose bytes is a colon, so no packed integer is read across a boundary.
HasColon(bytes) == \E i \in 1..Len(bytes) : <<bytes[i]>> = Colon

Enumerated(hdr, ks, skew) ==
    HasColon(hdr) \/ ~HasColon(InputKeys(ks, 1, Len(hdr), skew))

\* What is at the output path before the run, when something is.
OldOutput == <<222, 173>>

\* ------------------------------------------------------------------- state
VARIABLES
    pc,            \* where main() is
    err,           \* the failure that ended the run, "none" while there is none
    fix,           \* options.fix
    infileExists,  \* os.path.isfile(options.infile)
    infile,        \* content of the file at options.infile
    outfile,       \* the file at options.outfile: [exists, data]
    rpos,          \* rh.tell()
    buf,           \* read_keyring_header's buf
    header,        \* read_keyring_header's header, then main's header
    keys,          \* main's keys
    widx           \* 1-based index of the key the writing loop is at

vars == <<pc, err, fix, infileExists, infile, outfile, rpos, buf, header, keys, widx>>

Init ==
    /\ pc = "check_paths"
    /\ err = "none"
    /\ fix \in BOOLEAN
    /\ infileExists \in BOOLEAN
    /\ \E hdr \in Headers, ks \in KeyLists, skew \in PodSkews, cut \in 0..MaxCut :
          /\ Enumerated(hdr, ks, skew)
          /\ infile = IF infileExists THEN InputFile(hdr, ks, skew, cut) ELSE <<>>
    /\ outfile \in { [exists |-> FALSE, data |-> <<>>], [exists |-> TRUE, data |-> OldOutput] }
    /\ rpos = 0
    /\ buf = <<>>
    /\ header = <<>>
    /\ keys = <<>>
    /\ widx = 1

\* ----------------------------------------------------------------- actions
\* main: the two os.path.isfile checks.
CheckPathsAfterOpen ==
    /\ pc = "check_paths"
    /\ outfile' = [exists |-> TRUE, data |-> <<>>]
    /\ IF ~infileExists
       THEN pc' = "failed" /\ err' = "InputNotFound"
       ELSE IF outfile.exists
            THEN pc' = "failed" /\ err' = "OutputAlreadyExists"
            ELSE pc' = "open" /\ err' = err
    /\ UNCHANGED <<fix, infileExists, infile, rpos, buf, header, keys, widx>>
CheckPaths ==
    /\ pc = "check_paths"
    /\ IF ~infileExists
       THEN pc' = "failed" /\ err' = "InputNotFound"
       ELSE IF outfile.exists
            THEN pc' = "failed" /\ err' = "OutputAlreadyExists"
            ELSE pc' = "open" /\ err' = err
    /\ UNCHANGED <<fix, infileExists, infile, outfile, rpos, buf, header, keys, widx>>

\* main: rh = open(infile, 'rb'); wh = open(outfile, 'wb').
OpenFiles ==
    /\ pc = "open"
    /\ rpos' = 0
    /\ outfile' = [exists |-> TRUE, data |-> <<>>]
    /\ buf' = <<>>
    /\ header' = <<>>
    /\ pc' = "read_header"
    /\ UNCHANGED <<err, fix, infileExists, infile, keys, widx>>

\* read_keyring_header: one turn of the while loop.  At the end of the input
\* infile.read(1) returns '': buf and header stay as they are and the loop
\* takes the same turn again, without end.
ScanByte ==
    /\ pc = "read_header"
    /\ buf # Colon
    /\ LET b == FileRead(infile, rpos, 1)
       IN  /\ buf' = b
           /\ header' = header \o b
           /\ rpos' = rpos + Len(b)
    /\ UNCHANGED <<pc, err, fix, infileExists, infile, outfile, keys, widx>>

\* read_keyring_header: after the loop, the three bytes of version text.
ReadVersion ==
    /\ pc = "read_header"
    /\ buf = Colon
    /\ LET version_string == FileRead(infile, rpos, 3)
       IN  /\ header' = header \o version_string
           /\ rpos' = rpos + Len(version_string)
    /\ keys' = <<>>
    /\ pc' = "load"
    /\ UNCHANGED <<err, fix, infileExists, infile, outfile, buf, widx>>

\* main: one turn of the loading loop.
LoadKey ==
    /\ pc = "load"
    /\ LET r == KeyRead(infile, rpos)
       IN  /\ rpos' = r.pos
           /\ IF r.eof
              THEN pc' = "write_header" /\ keys' = keys
              ELSE pc' = pc /\ keys' = Append(keys, r.key)
    /\ UNCHANGED <<err, fix, infileExists, infile, outfile, buf, header, widx>>

\* main: wh.write(header).
WriteHeader ==
    /\ pc = "write_header"
    /\ outfile' = [outfile EXCEPT !.data = @ \o header]
    /\ widx' = 1
    /\ pc' = "write_keys"
    /\ UNCHANGED <<err, fix, infileExists, infile, rpos, buf, header, keys>>

\* main: one turn of the writing loop.
WriteKey ==
    /\ pc = "write_keys"
    /\ widx <= Len(keys)
    /\ LET k == FixKey(keys[widx], fix)
       IN  /\ keys' = [keys EXCEPT ![widx] = k]
           /\ outfile' = [outfile EXCEPT !.data = @ \o KeyWrite(k, Len(@))]
    /\ widx' = widx + 1
    /\ UNCHANGED <<pc, err, fix, infileExists, infile, rpos, buf, header>>

\* main: wh.write('EOF') once the writing loop is over.
WriteEOFPadded ==
    /\ pc = "write_keys"
    /\ widx > Len(keys)
    /\ outfile' = [outfile EXCEPT !.data = @ \o EOFText \o <<0>>]
    /\ pc' = "done"
    /\ UNCHANGED <<err, fix, infileExists, infile, rpos, buf, header, keys, widx>>
WriteEOF ==
    /\ pc = "write_keys"
    /\ widx > Len(keys)
    /\ outfile' = [outfile EXCEPT !.data = @ \o EOFText]
    /\ pc' = "done"
    /\ UNCHANGED <<err, fix, infileExists, infile, rpos, buf, header, keys, widx>>

\* main: a wh.write call raises (disk full, ...).  Of the write calls of the
\* key being written, the first n have gone through.
WriteError ==
    /\ pc \in {"write_header", "write_keys"}
    /\ IF pc = "write_keys" /\ widx <= Len(keys)
       THEN \E n \in 0..5 :
               LET k == FixKey(keys[widx], fix)
               IN  /\ keys' = [keys EXCEPT ![widx] = k]
                   /\ outfile' = [outfile EXCEPT
                         !.data = @ \o Flatten(KeyWriteCalls(k, Len(@)), n)]
       ELSE UNCHANGED <<keys, outfile>>
    /\ pc' = "failed"
    /\ err' = "IOError"
    /\ UNCHANGED <<fix, infileExists, infile, rpos, buf, header, widx>>

Next ==
    \/ CheckPaths
    \/ OpenFiles
    \/ ScanByte
    \/ ReadVersion
    \/ LoadKey
    \/ WriteHeader
    \/ WriteKey
    \/ WriteEOF
    \/ WriteError

Spec == Init /\ [][Next]_vars

\* The interpreter runs main() to its end: a step that can be taken is taken.
FairSpec == Spec /\ WF_vars(Next)

\* ------------------------------------------------------------------ claims
\* The length header at position pos of stream is complete.
FullHeaderAt(stream, pos) == Len(FileRead(stream, pos, CalcsizeQQQQQ)) = CalcsizeQQQQQ

\* The four field lengths the header at position pos of stream declares.
DeclaredAt(stream, pos) ==
    LET head == FileRead(stream, pos, CalcsizeQQQQQ)
    IN  UnpackQ(head, 1) + UnpackQ(head, 2) + UnpackQ(head, 3) + UnpackQ(head, 4)

\* The record whose header is at rpos declares more bytes than the input has.
TruncatedAtRpos ==
    /\ FullHeaderAt(infile, rpos)
    /\ rpos + CalcsizeQQQQQ + DeclaredAt(infile, rpos) > Len(infile)

\* A turn of the writing loop has just written keys'[widx].
WroteKey == pc = "write_keys" /\ pc' = "write_keys" /\ widx' = widx + 1

\* C1: a record whose header is complete but whose declared field lengths
\* exceed what is left of the input makes the run fail with TruncatedRecord;
\* it is not appended to the loaded keys and nothing of it is written.
C1_TruncatedRecordAborts ==
    [][(pc = "load" /\ TruncatedAtRpos)
          => (pc' = "failed" /\ err' = "TruncatedRecord" /\ keys' = keys /\ outfile' = outfile)]_vars

\* C2: reading back, from the offset it was written at, the key a turn of
\* the writing loop wrote gives a key with the same four fields, and the
\* read ends exactly where the write ended.
C2_RoundTrip ==
    [][WroteKey =>
          LET r == KeyRead(outfile'.data, Len(outfile.data))
          IN  /\ ~r.eof
              /\ r.key = keys'[widx]
              /\ r.pos = Len(outfile'.data)]_vars

\* C2 witness: a key with empty user_id and empty key has been written at an
\* offset that is not a multiple of 8.
C2_Witness ==
    /\ pc = "write_keys" /\ widx = 2
    /\ keys[1].user_id = <<>> /\ keys[1].key = <<>>
    /\ Len(header) % 8 # 0

\* C3: in a finished run the keys of the output are those of the input, as
\* many and in the same order; key_type, user_id and key are unchanged, and
\* key_id is 'percona_binlog:0' where fix is set and the input key_id is
\* 'percona_binlog', unchanged everywhere else.
C3_RewriteTransform ==
    pc = "done" =>
        LET inK  == LoadKeys(infile, Len(header)).keys
            outK == LoadKeys(outfile.data, Len(header)).keys
        IN  /\ Len(outK) = Len(inK)
            /\ \A i \in 1..Len(inK) :
                  /\ outK[i].key_type = inK[i].key_type
                  /\ outK[i].user_id = inK[i].user_id
                  /\ outK[i].key = inK[i].key
                  /\ outK[i].key_id =
                        IF fix /\ inK[i].key_id = PerconaBinlog
                        THEN PerconaBinlogV0
                        ELSE inK[i].key_id

\* C3 witness: a finished run without fix whose input holds two keys, one of
\* them named 'percona_binlog'.
C3_Witness ==
    /\ pc = "done" /\ ~fix
    /\ LET inK == LoadKeys(infile, Len(header)).keys
       IN  Len(inK) = 2 /\ inK[2].key_id = PerconaBinlog /\ inK[1].key_id # PerconaBinlog

\* C4: after every key written the output offset is a multiple of 8, and the
\* padding that follows the key's header and fields is 0 to 7 null bytes.
C4_Aligned ==
    [][WroteKey =>
          LET k    == keys'[widx]
              used == CalcsizeQQQQQ + Len(k.key_id) + Len(k.key_type) + Len(k.user_id) + Len(k.key)
              pad  == Len(outfile'.data) - Len(outfile.data) - used
          IN  /\ Len(outfile'.data) % 8 = 0
              /\ pad \in 0..7
              /\ \A i \in 1..pad : outfile'.data[Len(outfile.data) + used + i] = 0]_vars

\* C4 witness: two keys have been written after a header whose length is
\* not a multiple of 8.
C4_Witness ==
    /\ pc = "write_keys" /\ widx = 3
    /\ Len(header) % 8 # 0
    /\ Len(outfile.data) % 8 = 0

\* C5: the total_size a written key carries is 5*8 plus the lengths of its
\* four fields as they are when it is written.
C5_TotalSize ==
    [][WroteKey =>
          LET k    == keys'[widx]
              head == FileRead(outfile'.data, Len(outfile.data), CalcsizeQQQQQ)
          IN  /\ Len(head) = CalcsizeQQQQQ
              /\ UnpackQ(head, 0) =
                    5 * 8 + Len(k.key_id) + Len(k.key_type) + Len(k.user_id) + Len(k.key)]_vars

\* C5 witness: a renamed key has been written whose input record stored a
\* total_size that was not its size.
C5_Witness ==
    /\ pc = "write_keys" /\ widx = 2 /\ fix
    /\ keys[1].key_id = PerconaBinlogV0
    /\ LET head == FileRead(infile, Len(header), CalcsizeQQQQQ)
       IN  /\ Len(head) = CalcsizeQQQQQ
           /\ UnpackQ(head, 1) = Len(PerconaBinlog)
           /\ UnpackQ(head, 0) # CalcsizeQQQQQ + DeclaredAt(infile, Len(header))

\* C6: while keys are written the output ends with the last key's padding;
\* in a finished run it ends with 'EOF' right after that padding, and
\* nothing is written once the run has finished.
C6_SentinelOnce ==
    /\ [](pc = "write_keys" =>
            LoadKeys(outfile.data, Len(header)).pos = Len(outfile.data))
    /\ [](pc = "done" =>
            LET d == LoadKeys(outfile.data, Len(header))
            IN  /\ d.keys = keys
                /\ outfile.data = SubSeq(outfile.data, 1, d.pos) \o EOFText)
    /\ [][pc = "done" => outfile' = outfile]_vars

\* C6 witness: a finished run that wrote two keys.
C6_Witness ==
    /\ pc = "done" /\ Len(keys) = 2
    /\ SubSeq(outfile.data, Len(outfile.data) - 2, Len(outfile.data)) = EOFText

\* C7: read_keyring_header comes to an end on every input.
C7_HeaderTerminates == (pc = "read_header") ~> (pc # "read_header")

\* C8: a run that fails after the path checks leaves no file at the output
\* path.
C8_FailedLeavesNoFile ==
    (pc = "failed" /\ err \notin {"InputNotFound", "OutputAlreadyExists"}) => ~outfile.exists

\* C9: when the input path does not exist or the output path exists, the
\* run fails at the path checks, with the output path as it was and no byte
\* of the input read.
C9_PathChecksFirst ==
    /\ [][(pc = "check_paths" /\ (~infileExists \/ outfile.exists))
            => (pc' = "failed" /\ outfile' = outfile /\ rpos' = 0)]_vars
    /\ [](err \in {"InputNotFound", "OutputAlreadyExists"}
            => (pc = "failed" /\ rpos = 0 /\ header = <<>>
                /\ (outfile.exists => outfile.data = OldOutput)
                /\ (err = "InputNotFound" <=> ~infileExists)))

\* C9 witness: the run has failed because the output path exists; the file
\* there is the one that was there.
C9_Witness ==
    /\ pc = "failed" /\ err = "OutputAlreadyExists"
    /\ infileExists
    /\ outfile = [exists |-> TRUE, data |-> OldOutput]

\* C10: the Key.read that reports the end of the keys leaves the input
\* where it was when it was called.
C10_EofLeavesPosition ==
    [][(pc = "load" /\ pc' = "write_header") => rpos' = rpos]_vars

====
